---- MODULE Spec2Model ----
(***************************************************************************)
(* A model of the Titancoin ledger of blockchain.py: the class Ledger      *)
(* (first, last, _balance), the _Transaction objects it creates, and its   *)
(* methods record_mining, record_transfer, get_balance, verify_balance,    *)
(* record_mining_digest and record_transfer_digest.                        *)
(*                                                                         *)
(* Objects are modelled as an arena: heap[h] is the _Transaction with      *)
(* handle h, and the handle None (0) is Python's None.  The arena holds    *)
(* the objects created by the calls that returned normally, in creation    *)
(* order; the object a rejected transfer creates is dropped when the call  *)
(* raises and is never referenced by the ledger.                           *)
(*                                                                         *)
(* Calls are given arguments that satisfy the documented preconditions     *)
(* (names != '', amount > 0), except under SpecAnyArgs, where the          *)
(* @check_contracts decorator rejects the others.  digest_from_hash is     *)
(* called by the digest methods but is not defined in blockchain.py; it is *)
(* modelled as a pure function of a transaction's fields that is 0 for     *)
(* None.                                                                   *)
(***************************************************************************)
EXTENDS Integers, Sequences, FiniteSets, TLC

\* ------------------------------------------------------------------------
\* Bounds of the model
\* ------------------------------------------------------------------------
\* the largest amount a call is given (amounts are 1..MaxAmount)
MaxAmount == 2

\* the number of calls that may return normally from a mutation method
MaxRecords == 3

\* the names calls are given; all satisfy the precondition name != ''
People == {"David", "Mario"}

Amounts == 1..MaxAmount

\* Python's None, as an object handle
None == 0

\* the sender of a mining transaction (blockchain.py line 149)
NoSender == ""

VARIABLES
    first,      \* Ledger.first: a handle, or None
    last,       \* Ledger.last: a handle, or None
    _balance,   \* Ledger._balance: a function from a set of names to integers
    heap,       \* the _Transaction objects created so far
    op,         \* the last call: its name, arguments, exception and return value
    pre,        \* the ledger as it was when the last call started
    tampered,   \* the names whose entry of _balance was edited directly
    twin        \* a second Ledger and the exception its last call raised

vars == <<first, last, _balance, heap, op, pre, tampered, twin>>

\* the ledger's fields together with the objects they refer to
ledger == [first |-> first, last |-> last, _balance |-> _balance, heap |-> heap]

\* ------------------------------------------------------------------------
\* _Transaction
\* ------------------------------------------------------------------------
\* the dataclass constructor; next and nonce take their defaults
_Transaction(sender, recipient, amount, prev_digest) ==
    [sender |-> sender, recipient |-> recipient, amount |-> amount,
     next |-> None, prev_digest |-> prev_digest, nonce |-> 0]

\* the width of a digest: digests are integers in 0 .. DigestModulus - 1
DigestModulus == 256

\* the code of a name inside the digest
NameCode(name) ==
    CASE name = NoSender -> 0
      [] name = "David" -> 1
      [] name = "Mario" -> 2
      [] OTHER -> 3

\* the digest of the transaction with handle t: a deterministic function of
\* its sender, recipient, amount, prev_digest and nonce, and the zero
\* sentinel when there is no transaction
digest_from_hash(hp, t) ==
    IF t = None THEN 0
    ELSE LET r == hp[t] IN
         (((((NameCode(r.sender) * 31 + NameCode(r.recipient)) * 31
             + r.amount) * 31 + r.prev_digest) * 31 + r.nonce) + 17)
         % DigestModulus

\* ------------------------------------------------------------------------
\* The record of a call
\* ------------------------------------------------------------------------
\* raised is "" when the call returned; returned is <<>> for None
Call(name, args, raised, returned) ==
    [name |-> name, args |-> args, raised |-> raised, returned |-> returned]

\* ------------------------------------------------------------------------
\* Ledger.__init__
\* ------------------------------------------------------------------------
Init ==
    /\ first = None
    /\ last = None
    /\ _balance = <<>>
    /\ heap = <<>>
    /\ op = Call("__init__", <<>>, "", <<>>)
    /\ pre = [first |-> None, last |-> None, _balance |-> <<>>, heap |-> <<>>]
    /\ tampered = {}
    /\ twin = [raised |-> "",
               ledger |-> [first |-> None, last |-> None, _balance |-> <<>>,
                           heap |-> <<>>]]

\* d[key] = value on a dict: the key is added when it is absent
SetItem(d, key, value) ==
    [k \in (DOMAIN d) \cup {key} |-> IF k = key THEN value ELSE d[k]]

\* an entry of a dict, read as 0 when the key is absent
ValueOrZero(d, key) == IF key \in DOMAIN d THEN d[key] ELSE 0

\* ------------------------------------------------------------------------
\* @check_contracts
\* ------------------------------------------------------------------------
\* check_contracts with the checking of preconditions switched off
check_contracts_off(names, amount) == ""

\* the decorator's check of a recording method's documented preconditions
\* (every name != '', amount > 0), made before the method body runs: the
\* exception it raises, or "" when the preconditions hold
check_contracts(names, amount) ==
    IF (\A name \in names : name # "") /\ amount > 0
    THEN ""
    ELSE "AssertionError"

\* a call that is rejected before its body runs
Rejected(name, args, raised) ==
    /\ pre' = ledger
    /\ op' = Call(name, args, raised, <<>>)
    /\ UNCHANGED <<first, last, _balance, heap, tampered>>

\* ------------------------------------------------------------------------
\* Ledger.record_transfer and Ledger.record_transfer_digest
\* ------------------------------------------------------------------------
\* transfer_raises without the test of the sender's balance against the
\* amount
transfer_raises_unchecked(bal, sender, amount) ==
    IF sender \notin DOMAIN bal THEN "KeyError" ELSE ""

\* the exception the checks at the top of a transfer raise, or "" when the
\* transfer is accepted: self._balance[sender] is read first, so a sender
\* without an entry raises KeyError before the test for membership is reached
transfer_raises(bal, sender, amount) ==
    IF sender \notin DOMAIN bal THEN "KeyError"
    ELSE IF bal[sender] < amount THEN "ValueError"
    ELSE ""

\* transfer_balance with the recipient's entry assigned the amount whether or
\* not the entry exists
transfer_balance_assigned(bal, sender, recipient, amount) ==
    SetItem(SetItem(bal, sender, bal[sender] - amount), recipient, amount)

\* transfer_balance with the sender's entry deleted when the transfer
\* leaves it at 0
transfer_balance_pruned(bal, sender, recipient, amount) ==
    LET deducted == SetItem(bal, sender, bal[sender] - amount)
        added == SetItem(deducted, recipient,
                         ValueOrZero(deducted, recipient) + amount)
    IN  IF added[sender] = 0
        THEN [k \in (DOMAIN added) \ {sender} |-> added[k]]
        ELSE added

\* the balance update of an accepted transfer: the sender's entry is
\* written first, then the recipient's entry is read and written
transfer_balance(bal, sender, recipient, amount) ==
    LET deducted == SetItem(bal, sender, bal[sender] - amount) IN
    IF recipient \notin DOMAIN deducted
    THEN SetItem(deducted, recipient, amount)
    ELSE SetItem(deducted, recipient, deducted[recipient] + amount)

\* Transfer with self.last assigned before the checks, so that a rejected
\* call has already replaced last
Transfer_last_first(name, sender, recipient, amount, prev_digest) ==
    LET raised == transfer_raises(_balance, sender, amount)
    IN  /\ Len(heap) < MaxRecords
        /\ pre' = ledger
        /\ op' = Call(name, <<sender, recipient, amount>>, raised, <<>>)
        /\ heap' = Append(heap, _Transaction(sender, recipient, amount,
                                             prev_digest))
        /\ last' = Len(heap) + 1
        /\ _balance' = IF raised # "" THEN _balance
                       ELSE transfer_balance(_balance, sender, recipient, amount)
        /\ UNCHANGED <<first, tampered>>

\* the body shared by record_transfer (prev_digest left at its default) and
\* record_transfer_digest (prev_digest = digest_from_hash(self.last))
Transfer(name, sender, recipient, amount, prev_digest) ==
    LET raised == transfer_raises(_balance, sender, amount)
        new_tansfer == Len(heap) + 1
    IN  /\ pre' = ledger
        /\ op' = Call(name, <<sender, recipient, amount>>, raised, <<>>)
        /\ UNCHANGED tampered
        /\ IF raised # ""
           THEN UNCHANGED <<first, last, _balance, heap>>
           ELSE /\ Len(heap) < MaxRecords
                /\ heap' = Append(heap, _Transaction(sender, recipient, amount,
                                                     prev_digest))
                /\ last' = new_tansfer
                /\ _balance' = transfer_balance(_balance, sender, recipient, amount)
                /\ UNCHANGED first

record_transfer(sender, recipient, amount) ==
    IF check_contracts({sender, recipient}, amount) # ""
    THEN Rejected("record_transfer", <<sender, recipient, amount>>,
                  check_contracts({sender, recipient}, amount))
    ELSE Transfer("record_transfer", sender, recipient, amount, 0)

record_transfer_digest(sender, recipient, amount) ==
    IF check_contracts({sender, recipient}, amount) # ""
    THEN Rejected("record_transfer_digest", <<sender, recipient, amount>>,
                  check_contracts({sender, recipient}, amount))
    ELSE Transfer("record_transfer_digest", sender, recipient, amount,
                  digest_from_hash(heap, last))

\* ------------------------------------------------------------------------
\* Ledger.record_mining and Ledger.record_mining_digest
\* ------------------------------------------------------------------------
\* the balance update of a mining call: the miner's entry is assigned
mining_balance(bal, miner, amount) ==
    SetItem(bal, miner, amount)

\* Mining with the miner's entry read before it is written
\* (self._balance[miner] + amount), which raises KeyError for a miner
\* without an entry
Mining_reading(name, miner, amount, prev_digest) ==
    IF miner \notin DOMAIN _balance
    THEN Rejected(name, <<miner, amount>>, "KeyError")
    ELSE /\ Len(heap) < MaxRecords
         /\ pre' = ledger
         /\ op' = Call(name, <<miner, amount>>, "", <<>>)
         /\ _balance' = SetItem(_balance, miner, _balance[miner] + amount)
         /\ heap' = Append(heap, _Transaction(NoSender, miner, amount,
                                              prev_digest))
         /\ last' = Len(heap) + 1
         /\ UNCHANGED <<first, tampered>>

\* the body shared by record_mining and record_mining_digest: the new object
\* becomes first when there is no first, and last otherwise; on the first
\* branch record_mining_digest resets prev_digest to 0
Mining(name, miner, amount, prev_digest) ==
    LET new_miner == Len(heap) + 1 IN
    /\ Len(heap) < MaxRecords
    /\ pre' = ledger
    /\ op' = Call(name, <<miner, amount>>, "", <<>>)
    /\ UNCHANGED tampered
    /\ _balance' = mining_balance(_balance, miner, amount)
    /\ IF first = None
       THEN /\ first' = new_miner
            /\ heap' = Append(heap, _Transaction(NoSender, miner, amount, 0))
            /\ UNCHANGED last
       ELSE /\ last' = new_miner
            /\ heap' = Append(heap, _Transaction(NoSender, miner, amount,
                                                 prev_digest))
            /\ UNCHANGED first

record_mining(miner, amount) ==
    IF check_contracts({miner}, amount) # ""
    THEN Rejected("record_mining", <<miner, amount>>,
                  check_contracts({miner}, amount))
    ELSE Mining("record_mining", miner, amount, 0)

record_mining_digest(miner, amount) ==
    IF check_contracts({miner}, amount) # ""
    THEN Rejected("record_mining_digest", <<miner, amount>>,
                  check_contracts({miner}, amount))
    ELSE Mining("record_mining_digest", miner, amount,
                digest_from_hash(heap, last))

\* ------------------------------------------------------------------------
\* The digest-recording methods as functions of the ledger they are called
\* on: the exception raised ("" when none) and the ledger the call leaves
\* ------------------------------------------------------------------------
\* record_transfer_digest that also rejects a transfer of the sender's whole
\* balance (<= in place of <)
record_transfer_digest_on_strict(L, sender, recipient, amount) ==
    IF check_contracts({sender, recipient}, amount) # ""
    THEN [raised |-> "AssertionError", ledger |-> L]
    ELSE IF sender \notin DOMAIN L._balance
    THEN [raised |-> "KeyError", ledger |-> L]
    ELSE IF L._balance[sender] <= amount
    THEN [raised |-> "ValueError", ledger |-> L]
    ELSE [raised |-> "",
          ledger |-> [first |-> L.first,
                      last |-> Len(L.heap) + 1,
                      _balance |-> transfer_balance(L._balance, sender,
                                                    recipient, amount),
                      heap |-> Append(L.heap,
                                  _Transaction(sender, recipient, amount,
                                      digest_from_hash(L.heap, L.last)))]]

record_transfer_digest_on(L, sender, recipient, amount) ==
    LET new_tansfer == _Transaction(sender, recipient, amount,
                                    digest_from_hash(L.heap, L.last))
        deducted_balance == L._balance[sender] - amount
        deducted == SetItem(L._balance, sender, deducted_balance)
    IN
    IF check_contracts({sender, recipient}, amount) # ""
    THEN [raised |-> "AssertionError", ledger |-> L]
    ELSE IF sender \notin DOMAIN L._balance
    THEN [raised |-> "KeyError", ledger |-> L]
    ELSE IF L._balance[sender] < amount
    THEN [raised |-> "ValueError", ledger |-> L]
    ELSE [raised |-> "",
          ledger |-> [first |-> L.first,
                      last |-> Len(L.heap) + 1,
                      _balance |->
                          IF recipient \notin DOMAIN deducted
                          THEN SetItem(deducted, recipient, amount)
                          ELSE SetItem(deducted, recipient,
                                       deducted[recipient] + amount),
                      heap |-> Append(L.heap, new_tansfer)]]

record_mining_digest_on(L, miner, amount) ==
    LET new_miner == _Transaction(NoSender, miner, amount,
                                  digest_from_hash(L.heap, L.last))
    IN
    IF check_contracts({miner}, amount) # ""
    THEN [raised |-> "AssertionError", ledger |-> L]
    ELSE IF L.first = None
    THEN [raised |-> "",
          ledger |-> [first |-> Len(L.heap) + 1,
                      last |-> L.last,
                      _balance |-> SetItem(L._balance, miner, amount),
                      heap |-> Append(L.heap,
                                      [new_miner EXCEPT !.prev_digest = 0])]]
    ELSE [raised |-> "",
          ledger |-> [first |-> L.first,
                      last |-> Len(L.heap) + 1,
                      _balance |-> SetItem(L._balance, miner, amount),
                      heap |-> Append(L.heap, new_miner)]]

\* ------------------------------------------------------------------------
\* Ledger.get_balance
\* ------------------------------------------------------------------------
\* get_balance that records a zero balance for a person without an entry
\* instead of raising
get_balance_recording(person) ==
    /\ pre' = ledger
    /\ op' = Call("get_balance", <<person>>, "",
                  <<ValueOrZero(_balance, person)>>)
    /\ _balance' = SetItem(_balance, person, ValueOrZero(_balance, person))
    /\ UNCHANGED <<first, last, heap, tampered>>

get_balance(person) ==
    /\ pre' = ledger
    /\ op' = IF person \notin DOMAIN _balance
             THEN Call("get_balance", <<person>>, "ValueError", <<>>)
             ELSE Call("get_balance", <<person>>, "", <<_balance[person]>>)
    /\ UNCHANGED <<first, last, _balance, heap, tampered>>

\* ------------------------------------------------------------------------
\* Ledger.verify_balance
\* ------------------------------------------------------------------------
\* the while loop: curr_trans runs from the given handle along next; the
\* result is the accumulated balance_so_far, or the early return or
\* exception that ended the loop
RECURSIVE walk(_, _, _, _)
walk(hp, bal, balance_so_far, curr_trans) ==
    IF curr_trans = None
    THEN [ended |-> "", balance_so_far |-> balance_so_far]
    ELSE
      LET recipient == hp[curr_trans].recipient
          sender == hp[curr_trans].sender
          amount == hp[curr_trans].amount
      IN
      IF recipient \notin DOMAIN balance_so_far
      THEN [ended |-> "KeyError", balance_so_far |-> balance_so_far]
      ELSE
        LET added == [balance_so_far EXCEPT ![recipient] = @ + amount] IN
        IF sender # NoSender
        THEN IF sender \notin DOMAIN bal
             THEN [ended |-> "KeyError", balance_so_far |-> added]
             ELSE IF bal[sender] < amount \/ bal[sender] = 0
             THEN [ended |-> "False", balance_so_far |-> added]
             ELSE walk(hp, bal, [added EXCEPT ![sender] = @ - amount],
                       hp[curr_trans].next)
        ELSE walk(hp, bal, added, hp[curr_trans].next)

\* the call as a function of the ledger: <<raised, returned>>
verify_balance_result(hp, fst, bal) ==
    LET walked == walk(hp, bal, [name \in DOMAIN bal |-> 0], fst) IN
    CASE walked.ended = "KeyError" -> <<"KeyError", <<>>>>
      [] walked.ended = "False" -> <<"", <<FALSE>>>>
      [] OTHER ->
           IF \E name \in DOMAIN walked.balance_so_far :
                  walked.balance_so_far[name] # bal[name]
           THEN <<"", <<FALSE>>>>
           ELSE <<"", <<TRUE>>>>

verify_balance ==
    LET result == verify_balance_result(heap, first, _balance) IN
    /\ pre' = ledger
    /\ op' = Call("verify_balance", <<>>, result[1], result[2])
    /\ UNCHANGED <<first, last, _balance, heap, tampered>>

\* ------------------------------------------------------------------------
\* A direct edit of one entry of _balance, as in the doctest of
\* verify_balance (ledger._balance['David'] += 1000)
\* ------------------------------------------------------------------------
\* the values an edit may write: every balance the bounded calls can produce
TamperValues == 0..(MaxAmount * MaxRecords)

tamper(person, value) ==
    /\ person \in DOMAIN _balance
    /\ value # _balance[person]
    /\ pre' = ledger
    /\ op' = Call("tamper", <<person, value>>, "", <<>>)
    /\ _balance' = SetItem(_balance, person, value)
    /\ tampered' = tampered \cup {person}
    /\ UNCHANGED <<first, last, heap>>

\* a direct edit that adds an entry for a name that has none
tamper_add(person, value) ==
    /\ person \notin DOMAIN _balance
    /\ pre' = ledger
    /\ op' = Call("tamper_add", <<person, value>>, "", <<>>)
    /\ _balance' = SetItem(_balance, person, value)
    /\ tampered' = tampered \cup {person}
    /\ UNCHANGED <<first, last, heap>>

\* a direct edit that removes an entry (del ledger._balance[person])
tamper_del(person) ==
    /\ person \in DOMAIN _balance
    /\ pre' = ledger
    /\ op' = Call("tamper_del", <<person>>, "", <<>>)
    /\ _balance' = [k \in (DOMAIN _balance) \ {person} |-> _balance[k]]
    /\ tampered' = tampered \cup {person}
    /\ UNCHANGED <<first, last, heap>>

\* ------------------------------------------------------------------------
\* Specifications
\* ------------------------------------------------------------------------
\* every method of Ledger, called on one ledger in any order with arguments
\* that satisfy the documented preconditions
Next ==
    \/ \E miner \in People, amount \in Amounts :
           record_mining(miner, amount) /\ UNCHANGED twin
    \/ \E sender \in People, recipient \in People, amount \in Amounts :
           record_transfer(sender, recipient, amount) /\ UNCHANGED twin
    \/ \E miner \in People, amount \in Amounts :
           record_mining_digest(miner, amount) /\ UNCHANGED twin
    \/ \E sender \in People, recipient \in People, amount \in Amounts :
           record_transfer_digest(sender, recipient, amount) /\ UNCHANGED twin
    \/ \E person \in People : get_balance(person) /\ UNCHANGED twin
    \/ verify_balance /\ UNCHANGED twin

Spec == Init /\ [][Next]_vars

\* a ledger that is built with the digest-recording methods only
NextDigest ==
    \/ \E miner \in People, amount \in Amounts :
           record_mining_digest(miner, amount) /\ UNCHANGED twin
    \/ \E sender \in People, recipient \in People, amount \in Amounts :
           record_transfer_digest(sender, recipient, amount) /\ UNCHANGED twin
    \/ \E person \in People : get_balance(person) /\ UNCHANGED twin
    \/ verify_balance /\ UNCHANGED twin

SpecDigest == Init /\ [][NextDigest]_vars

\* a ledger built by the plain methods, then one direct edit of _balance,
\* then verification
NextTamper ==
    \/ /\ tampered = {}
       /\ \E miner \in People, amount \in Amounts : record_mining(miner, amount)
       /\ UNCHANGED twin
    \/ /\ tampered = {}
       /\ \E sender \in People, recipient \in People, amount \in Amounts :
              record_transfer(sender, recipient, amount)
       /\ UNCHANGED twin
    \/ /\ tampered = {}
       /\ \E person \in DOMAIN _balance, value \in TamperValues :
              tamper(person, value)
       /\ UNCHANGED twin
    \/ verify_balance /\ UNCHANGED twin

SpecTamper == Init /\ [][NextTamper]_vars

\* a ledger built by the plain methods, then one direct edit of _balance of
\* any kind (a value changed, a key added, a key removed), then verification
NextEdit ==
    \/ /\ tampered = {}
       /\ \E miner \in People, amount \in Amounts : record_mining(miner, amount)
       /\ UNCHANGED twin
    \/ /\ tampered = {}
       /\ \E sender \in People, recipient \in People, amount \in Amounts :
              record_transfer(sender, recipient, amount)
       /\ UNCHANGED twin
    \/ /\ tampered = {}
       /\ \E person \in People, value \in TamperValues : tamper(person, value)
       /\ UNCHANGED twin
    \/ /\ tampered = {}
       /\ \E person \in People, value \in TamperValues :
              tamper_add(person, value)
       /\ UNCHANGED twin
    \/ /\ tampered = {}
       /\ \E person \in People : tamper_del(person)
       /\ UNCHANGED twin
    \/ verify_balance /\ UNCHANGED twin

SpecEdit == Init /\ [][NextEdit]_vars

\* the recording methods called with any arguments, also ones that violate
\* the documented preconditions
AnyNames == People \cup {""}

AnyAmounts == 0..MaxAmount

NextAnyArgs ==
    \/ \E miner \in AnyNames, amount \in AnyAmounts :
           record_mining(miner, amount) /\ UNCHANGED twin
    \/ \E sender \in AnyNames, recipient \in AnyNames, amount \in AnyAmounts :
           record_transfer(sender, recipient, amount) /\ UNCHANGED twin

SpecAnyArgs == Init /\ [][NextAnyArgs]_vars

\* two ledgers given the same calls: the plain methods on the one, the
\* digest-recording methods on the other
NextTwin ==
    \/ \E miner \in People, amount \in Amounts :
           /\ record_mining(miner, amount)
           /\ twin' = record_mining_digest_on(twin.ledger, miner, amount)
    \/ \E sender \in People, recipient \in People, amount \in Amounts :
           /\ record_transfer(sender, recipient, amount)
           /\ twin' = record_transfer_digest_on(twin.ledger, sender, recipient,
                                                amount)

SpecTwin == Init /\ [][NextTwin]_vars

\* ------------------------------------------------------------------------
\* What the calls made so far amount to
\* ------------------------------------------------------------------------
TransferNames == {"record_transfer", "record_transfer_digest"}

MiningNames == {"record_mining", "record_mining_digest"}

\* the sum of the values of a dict
RECURSIVE SumValues(_)
SumValues(d) ==
    IF DOMAIN d = {} THEN 0
    ELSE LET k == CHOOSE x \in DOMAIN d : TRUE IN
         d[k] + SumValues([x \in (DOMAIN d) \ {k} |-> d[x]])

\* the sum of the amounts of the mining calls among the first n objects
RECURSIVE MinedAmount(_, _)
MinedAmount(hp, n) ==
    IF n = 0 THEN 0
    ELSE MinedAmount(hp, n - 1)
         + (IF hp[n].sender = NoSender THEN hp[n].amount ELSE 0)

\* the balances the first n recorded transactions imply: a mining adds its
\* amount to the recipient, a transfer moves its amount from the sender to
\* the recipient
RECURSIVE ImpliedBalance(_, _)
ImpliedBalance(hp, n) ==
    IF n = 0 THEN <<>>
    ELSE LET b == ImpliedBalance(hp, n - 1)
             t == hp[n]
             paid == IF t.sender = NoSender THEN b
                     ELSE SetItem(b, t.sender, ValueOrZero(b, t.sender) - t.amount)
         IN  SetItem(paid, t.recipient, ValueOrZero(paid, t.recipient) + t.amount)

\* the handle reached from h by following next k times
RECURSIVE follow(_, _, _)
follow(hp, h, k) ==
    IF k = 0 \/ h = None THEN h ELSE follow(hp, hp[h].next, k - 1)

\* ------------------------------------------------------------------------
\* Claims
\* ------------------------------------------------------------------------

\* C1: a rejected record_transfer or record_transfer_digest (the sender has
\* no entry, or the sender's balance is less than the amount) leaves first,
\* last, the transaction objects and _balance exactly as they were.
C1_RejectedTransferUnchanged ==
    (op.name \in TransferNames /\ op.raised # "") => ledger = pre

\* a transfer was rejected for insufficient balance on a ledger that has
\* both a first and a last transaction
C1_Witness ==
    /\ op.name \in TransferNames
    /\ op.raised = "ValueError"
    /\ first # None
    /\ last # None

\* C2: the sum of all values of _balance equals the sum of the amounts of
\* all mining calls made so far.
C2_Conservation ==
    SumValues(_balance) = MinedAmount(heap, Len(heap))

\* C3: on a ledger reached by the recording methods alone, verify_balance
\* returns True.
C3_VerifySound ==
    op.name = "verify_balance" => (op.raised = "" /\ op.returned = <<TRUE>>)

\* C4: after one entry of _balance is edited directly to a value different
\* from the one the recorded transactions imply, verify_balance returns False.
C4_TamperDetected ==
    (/\ op.name = "verify_balance"
     /\ \E p \in tampered :
            _balance[p] # ImpliedBalance(heap, Len(heap))[p])
    => (op.raised = "" /\ op.returned = <<FALSE>>)

\* C5: after n >= 1 successful mutation calls, following next n - 1 times
\* from first reaches last, and last has no next.
C5_ChainLength ==
    Len(heap) >= 1 =>
        /\ first # None
        /\ last # None
        /\ follow(heap, first, Len(heap) - 1) = last
        /\ heap[last].next = None

\* C6: every value of _balance is >= 0.
C6_NonNegative ==
    \A p \in DOMAIN _balance : _balance[p] >= 0

\* an accepted transfer has taken the sender's whole balance
C6_Witness ==
    /\ op.name \in TransferNames
    /\ op.raised = ""
    /\ op.args[1] # op.args[2]
    /\ _balance[op.args[1]] = 0

\* C7: in a ledger built with the digest-recording methods, every record
\* that has a successor (every record but the newest) has a next whose
\* prev_digest is the digest of the record, and the first record's
\* prev_digest is 0.
C7_DigestLinkage ==
    /\ \A r \in 1..(Len(heap) - 1) :
           /\ heap[r].next # None
           /\ heap[heap[r].next].prev_digest = digest_from_hash(heap, r)
    /\ first # None => heap[first].prev_digest = 0

\* C8: a mining call adds its amount to the miner's entry (creating it at
\* the amount when absent) and leaves every other entry unchanged.
C8_MiningAdds ==
    op.name \in MiningNames =>
        /\ DOMAIN _balance = (DOMAIN pre._balance) \cup {op.args[1]}
        /\ \A p \in DOMAIN _balance :
               _balance[p] = ValueOrZero(pre._balance, p)
                             + (IF p = op.args[1] THEN op.args[2] ELSE 0)

\* C9: an accepted transfer decreases the sender's entry by the amount,
\* increases the recipient's entry by the amount (creating it at the amount
\* when absent) and leaves every other entry unchanged; with sender equal to
\* recipient the entry is unchanged overall.
C9_TransferMoves ==
    (op.name \in TransferNames /\ op.raised = "") =>
        /\ DOMAIN _balance = (DOMAIN pre._balance) \cup {op.args[2]}
        /\ \A p \in DOMAIN _balance :
               _balance[p] = ValueOrZero(pre._balance, p)
                             - (IF p = op.args[1] THEN op.args[3] ELSE 0)
                             + (IF p = op.args[2] THEN op.args[3] ELSE 0)

\* an accepted transfer has created the recipient's entry
C9_Witness ==
    /\ op.name \in TransferNames
    /\ op.raised = ""
    /\ op.args[2] \notin DOMAIN pre._balance
    /\ _balance[op.args[2]] = op.args[3]

\* C10: a transfer raises ValueError exactly when the sender has no entry or
\* the sender's balance is less than the amount, and raises nothing else.
C10_TransferRaisesValueError ==
    op.name \in TransferNames =>
        /\ op.raised \in {"", "ValueError"}
        /\ (op.raised = "ValueError") <=>
               (\/ op.args[1] \notin DOMAIN pre._balance
                \/ pre._balance[op.args[1]] < op.args[3])

\* C11: first is None exactly when last is None, and _balance is empty
\* exactly when the chain is empty (first and last both None).
C11_Structure ==
    /\ (first = None) <=> (last = None)
    /\ (DOMAIN _balance = {}) <=> (first = None /\ last = None)

\* C12: get_balance returns the person's entry of _balance when there is
\* one and raises ValueError when there is none, and in both cases leaves
\* first, last, the transaction objects and _balance unchanged.
C12_GetBalance ==
    op.name = "get_balance" =>
        /\ ledger = pre
        /\ IF op.args[1] \in DOMAIN pre._balance
           THEN op.raised = "" /\ op.returned = <<pre._balance[op.args[1]]>>
           ELSE op.raised = "ValueError" /\ op.returned = <<>>

\* get_balance has raised for a person without an entry on a ledger where
\* another person has one
C12_Witness ==
    /\ op.name = "get_balance"
    /\ op.raised = "ValueError"
    /\ DOMAIN _balance # {}

\* C13: a recording call that violates a precondition (an empty name, or
\* amount <= 0) ends with an error and leaves first, last, the transaction
\* objects and _balance exactly as they were.
C13_PreconditionRejected ==
    (/\ op.name \in TransferNames \cup MiningNames
     /\ \/ \E i \in 1..(Len(op.args) - 1) : op.args[i] = ""
        \/ op.args[Len(op.args)] <= 0)
    => (op.raised # "" /\ ledger = pre)

\* a mining call with amount 0 was rejected on a ledger that holds a record
C13_Witness ==
    /\ op.name \in MiningNames
    /\ op.args[1] # ""
    /\ op.args[2] = 0
    /\ op.raised = "AssertionError"
    /\ first # None

C15_EveryPartyHasEntry ==
    /\ \A t \in 1..Len(heap) :
           /\ heap[t].recipient \in DOMAIN _balance
           /\ heap[t].sender # NoSender => heap[t].sender \in DOMAIN _balance
    /\ DOMAIN pre._balance \subseteq DOMAIN _balance

\* the sender of a recorded transfer still has an entry, with balance 0,
\* while another call is made
C15_Witness ==
    /\ op.name = "get_balance"
    /\ op.returned = <<0>>
    /\ \E t \in 1..Len(heap) : heap[t].sender = op.args[1]

\* C16: a successful recording call on an empty ledger makes the new record
\* both first and last; on a non-empty ledger it leaves first unchanged,
\* makes the new record last and sets the previous last's next to the new
\* record, so that last is reachable from first.
C16_AppendStep ==
    (op.name \in TransferNames \cup MiningNames /\ op.raised = "") =>
        IF pre.first = None
        THEN first = Len(heap) /\ last = Len(heap)
        ELSE /\ first = pre.first
             /\ last = Len(heap)
             /\ pre.last # None => heap[pre.last].next = Len(heap)
             /\ \E k \in 0..Len(heap) : follow(heap, first, k) = last

\* C17: every record a successful call has appended is, in every later
\* state, reached from first by following next as many times as records
\* were appended before it, with its sender, recipient, amount and
\* prev_digest unchanged.
C17_AppendOnly ==
    /\ Len(pre.heap) <= Len(heap)
    /\ \A t \in 1..Len(pre.heap) :
           /\ heap[t].sender = pre.heap[t].sender
           /\ heap[t].recipient = pre.heap[t].recipient
           /\ heap[t].amount = pre.heap[t].amount
           /\ heap[t].prev_digest = pre.heap[t].prev_digest
    /\ \A t \in 1..Len(heap) : follow(heap, first, t - 1) = t

\* C19: when some recorded transfer's sender has a cached balance that is 0
\* or less than the transfer's amount, verify_balance returns False.
C19_CachedSufficiency ==
    (/\ op.name = "verify_balance"
     /\ \E t \in 1..Len(heap) :
            /\ heap[t].sender # NoSender
            /\ \/ _balance[heap[t].sender] = 0
               \/ _balance[heap[t].sender] < heap[t].amount)
    => (op.raised = "" /\ op.returned = <<FALSE>>)

\* C18: on a ledger built by the recording methods and then altered by a
\* direct edit of _balance (a value changed, a key added, or the key of a
\* recorded party removed), verify_balance returns True or False and does
\* not raise.
C18_VerifyNeverRaises ==
    op.name = "verify_balance" =>
        (op.raised = "" /\ op.returned \in {<<TRUE>>, <<FALSE>>})

\* C20: when the same calls are made with the plain methods on one ledger
\* and with the digest-recording methods on another, after every call the
\* two calls raised the same exception or both returned, the two _balance
\* are equal, and the two ledgers hold the same records (sender, recipient,
\* amount, next) in the same order, with the same first and last: they
\* differ in prev_digest only.
C20_DigestRefinesPlain ==
    /\ twin.raised = op.raised
    /\ twin.ledger._balance = _balance
    /\ twin.ledger.first = first
    /\ twin.ledger.last = last
    /\ Len(twin.ledger.heap) = Len(heap)
    /\ \A t \in 1..Len(heap) :
           /\ twin.ledger.heap[t].sender = heap[t].sender
           /\ twin.ledger.heap[t].recipient = heap[t].recipient
           /\ twin.ledger.heap[t].amount = heap[t].amount
           /\ twin.ledger.heap[t].next = heap[t].next

\* both ledgers have accepted a transfer of the sender's whole balance as
\* their third record, and the two records differ in prev_digest
C20_Witness ==
    /\ op.name = "record_transfer"
    /\ op.raised = ""
    /\ Len(heap) = 3
    /\ pre._balance[op.args[1]] = op.args[3]
    /\ twin.ledger.heap[3].prev_digest # heap[3].prev_digest

====
